---- MODULE Spec2Model ----
(***************************************************************************)
(* Model of the entity-component registry (World) of tiles-entity-system:  *)
(* component registration (bit identifiers), entity creation and deferred  *)
(* destruction, dirty tracking, and the cache of incrementally             *)
(* synchronized entity groups (views).                                     *)
(***************************************************************************)
EXTENDS Integers, Sequences, FiniteSets, TLC

\* ------------------------------------------------------------------ bounds
NumTypes == 2
MaxEntities == 2
MaxGroups == 1
MaxViewEntities == 1
MaxViews == 2
MaxListLen == 2
MaxRegistrations == 34
MaxReRegistrations == 1
MaxProbeBits == 3

\* Width of the operands of the JavaScript shift operator `<<`.
ShiftWidth == 32

Types == 1..NumTypes
Entities == 1..(MaxEntities + MaxViewEntities)
RegTypes == 1..MaxRegistrations

RECURSIVE SeqsUpTo(_, _)
SeqsUpTo(S, n) ==
  IF n = 0 THEN {<<>>}
  ELSE LET shorter == SeqsUpTo(S, n - 1)
       IN shorter \cup {Append(s, x) : s \in shorter, x \in S}

\* Component type lists handed to create() and to query descriptors.
TypeLists == SeqsUpTo(Types, MaxListLen)

Range(s) == {s[i] : i \in 1..Len(s)}

VARIABLES
  nextStorageIndex,  \* World.nextStorageIndex
  storages,          \* World.storages: component type -> [id, components]
  entities,          \* EntityManager alive list
  nextEntity,        \* next entity handle to allocate
  compositions,      \* entity -> composition (set of one-bit identifiers)
  changed,           \* Changes.changed, the dirty list
  destroyed,         \* Changes.destroyed
  groups,            \* World.groups: sequence of [filter, entities]
  lastOp,            \* the operation that produced this state
  result,            \* index in groups of the view returned by the last query
  lastQuery,         \* <<contains set, excludes set>> of the last query
  asked,             \* per cached view, the descriptor of the query that built it
  probe              \* a filter, a composition and the outcome of Filter.check on them

vars == << nextStorageIndex, storages, entities, nextEntity, compositions,
           changed, destroyed, groups, lastOp, result, lastQuery, asked,
           probe >>

\* The world as one value, so that a handler's statements compose in sequence.
W == [ nextStorageIndex |-> nextStorageIndex, storages |-> storages,
       entities |-> entities, nextEntity |-> nextEntity,
       compositions |-> compositions, changed |-> changed,
       destroyed |-> destroyed, groups |-> groups ]

Becomes(w) ==
  /\ nextStorageIndex' = w.nextStorageIndex
  /\ storages' = w.storages
  /\ entities' = w.entities
  /\ nextEntity' = w.nextEntity
  /\ compositions' = w.compositions
  /\ changed' = w.changed
  /\ destroyed' = w.destroyed
  /\ groups' = w.groups

\* ------------------------------------------------------------------ bits
\* 1 << n as JavaScript computes it: the shift count is taken modulo 32 and
\* the result is a signed 32-bit integer.
ShiftLeftOne(n) ==
  LET k == n % ShiftWidth
  IN IF k = ShiftWidth - 1 THEN 0 - (2^(ShiftWidth - 2)) - (2^(ShiftWidth - 2))
     ELSE 2^k

\* ------------------------------------------------------------------ filter
Filter(inclusions, exclusions) ==
  [inclusions |-> inclusions, exclusions |-> exclusions]

\* check that is content with any one bit of the inclusion mask.
checkAnyInclusion(filter, compositionId) ==
  /\ (filter.inclusions = {} \/ (filter.inclusions \cap compositionId) # {})
  /\ (filter.exclusions \cap compositionId) = {}

check(filter, compositionId) ==
  /\ (filter.inclusions \cap compositionId) = filter.inclusions
  /\ (filter.exclusions \cap compositionId) = {}

equals(f, g) ==
  /\ f.inclusions = g.inclusions
  /\ f.exclusions = g.exclusions

\* ------------------------------------------------------------------ entity index
composition(w, entity) == w.compositions[entity]

isAlive(w, entity) == entity \in Range(w.entities)

insert(w, entity) == [w EXCEPT !.entities = Append(@, entity)]

\* setDirty that does not look for the entity in the dirty list.
setDirtyNoDedup(w, entity) ==
  IF isAlive(w, entity)
  THEN [w EXCEPT !.changed = Append(@, entity)]
  ELSE w

setDirty(w, entity) ==
  IF entity \notin Range(w.changed) /\ isAlive(w, entity)
  THEN [w EXCEPT !.changed = Append(@, entity)]
  ELSE w

entityCreate(w) ==
  [insert(w, w.nextEntity) EXCEPT !.nextEntity = @ + 1]

\* EntityManager.destroy: true exactly when the entity is alive.
entityDestroy(w, entity) == isAlive(w, entity)

changesDestroy(w, entity) ==
  IF entity \in Range(w.destroyed) THEN w
  ELSE [w EXCEPT !.destroyed = Append(@, entity)]

\* Changes.clear: resets the dirty and destroyed lists; the entities that were
\* pending removal leave the alive list (PendingRemoval -> Purged).
changesClear(w) ==
  [w EXCEPT !.entities = SelectSeq(@, LAMBDA e : e \notin Range(w.destroyed)),
            !.changed = <<>>,
            !.destroyed = <<>>]

\* ------------------------------------------------------------------ storage
storageSet(w, component, entity) ==
  IF ~isAlive(w, entity) THEN w
  ELSE LET id == w.storages[component].id
           w1 == [w EXCEPT !.storages[component].components = @ \cup {entity},
                           !.compositions[entity] = @ \cup {id}]
       IN setDirty(w1, entity)

storageRemove(w, component, entity) ==
  IF entity \notin w.storages[component].components \/ ~isAlive(w, entity) THEN w
  ELSE LET id == w.storages[component].id
           w1 == [w EXCEPT !.storages[component].components = @ \ {entity},
                           !.compositions[entity] = @ \ {id}]
       IN setDirty(w1, entity)

\* ------------------------------------------------------------------ group
groupHas(group, entity) == entity \in Range(group.entities)

groupTest(group, compositionId) == check(group.filter, compositionId)

groupAdd(group, entity) == [group EXCEPT !.entities = Append(@, entity)]

groupRemove(group, entity) ==
  LET i == CHOOSE j \in 1..Len(group.entities) :
             /\ group.entities[j] = entity
             /\ \A k \in 1..(j - 1) : group.entities[k] # entity
  IN [group EXCEPT !.entities =
        SubSeq(@, 1, i - 1) \o SubSeq(@, i + 1, Len(@))]

\* ------------------------------------------------------------------ world
register(w, component) ==
  LET s == [id |-> ShiftLeftOne(w.nextStorageIndex), components |-> {}]
  IN [w EXCEPT !.nextStorageIndex = @ + 1,
               !.storages = [c \in (DOMAIN @) \cup {component} |->
                               IF c = component THEN s ELSE @[c]]]

\* storage that registers the component type on every call.
storageAlwaysRegisters(w, component) == register(w, component)

\* World.storage: the world after get-or-register; the storage is
\* storage(w, c).storages[c].
storage(w, component) ==
  IF component \in DOMAIN w.storages THEN w ELSE register(w, component)

RECURSIVE createCompositionFrom(_, _, _)
createCompositionFrom(w, components, bits) ==
  IF components = <<>> THEN [world |-> w, bits |-> bits]
  ELSE LET w1 == storage(w, Head(components))
       IN createCompositionFrom(w1, Tail(components),
                                bits \cup {w1.storages[Head(components)].id})

createComposition(w, components) == createCompositionFrom(w, components, {})

createFilter(w, contains, excludes) ==
  LET inc == createComposition(w, contains)
      exc == createComposition(inc.world, excludes)
  IN [world |-> exc.world, filter |-> Filter(inc.bits, exc.bits)]

alive(w, entity) == isAlive(w, entity)

RECURSIVE setAll(_, _, _)
setAll(w, entity, components) ==
  IF components = <<>> THEN w
  ELSE LET w1 == storage(w, Head(components))
       IN setAll(storageSet(w1, Head(components), entity), entity, Tail(components))

\* create that resolves the storages of the components it was given and
\* attaches none of them.
createBare(w, components) == createComposition(entityCreate(w), components).world

create(w, components) ==
  LET w1 == entityCreate(w)
  IN setAll(w1, w.nextEntity, components)

\* destroy that records the entity without asking whether it is alive.
destroyUnchecked(w, entity) == changesDestroy(w, entity)

\* destroy that takes the entity out of the alive list and of every group at once.
destroyEager(w, entity) ==
  IF entityDestroy(w, entity)
  THEN [changesDestroy(w, entity) EXCEPT
          !.entities = SelectSeq(@, LAMBDA e : e # entity),
          !.groups = [i \in 1..Len(@) |->
                        [@[i] EXCEPT !.entities = SelectSeq(@, LAMBDA e : e # entity)]]]
  ELSE w

destroy(w, entity) ==
  IF entityDestroy(w, entity) THEN changesDestroy(w, entity) ELSE w

\* The two-branch sync: remove on mismatch, add on match, without asking
\* whether the group holds the entity.
RECURSIVE syncGroupUnguarded(_, _, _)
syncGroupUnguarded(w, group, dirty) ==
  IF dirty = <<>> THEN group
  ELSE LET entity == Head(dirty)
           g1 == IF groupTest(group, composition(w, entity))
                 THEN groupAdd(group, entity)
                 ELSE IF groupHas(group, entity) THEN groupRemove(group, entity)
                      ELSE group
       IN syncGroupUnguarded(w, g1, Tail(dirty))

\* One pass of the inner loop of sync for one group.
RECURSIVE syncGroup(_, _, _)
syncGroup(w, group, dirty) ==
  IF dirty = <<>> THEN group
  ELSE LET entity == Head(dirty)
           c == composition(w, entity)
           g1 == IF groupHas(group, entity)
                 THEN IF ~groupTest(group, c) THEN groupRemove(group, entity)
                      ELSE group
                 ELSE IF groupTest(group, c) THEN groupAdd(group, entity)
                      ELSE group
       IN syncGroup(w, g1, Tail(dirty))

\* sync that stops after the first group.
syncFirstGroup(w) ==
  IF Len(w.changed) = 0 THEN w
  ELSE [w EXCEPT !.groups =
          [i \in 1..Len(w.groups) |->
             IF i = 1 THEN syncGroup(w, w.groups[i], w.changed) ELSE w.groups[i]]]

sync(w) ==
  IF Len(w.changed) = 0 THEN w
  ELSE [w EXCEPT !.groups =
          [i \in 1..Len(w.groups) |-> syncGroup(w, w.groups[i], w.changed)]]

RECURSIVE removeFromStorages(_, _, _)
removeFromStorages(w, entity, comps) ==
  IF comps = {} THEN w
  ELSE LET c == CHOOSE x \in comps : TRUE
       IN removeFromStorages(storageRemove(w, c, entity), entity, comps \ {c})

RECURSIVE purgeDestroyed(_, _)
purgeDestroyed(w, dead) ==
  IF dead = <<>> THEN w
  ELSE purgeDestroyed(removeFromStorages(w, Head(dead), DOMAIN w.storages),
                      Tail(dead))

\* update that forgets to clear the change lists.
updateNoClear(w) == sync(purgeDestroyed(w, w.destroyed))

update(w) == changesClear(sync(purgeDestroyed(w, w.destroyed)))

\* Index of the first cached group whose filter equals `filter`, 0 if none.
cachedGroup(w, filter) ==
  LET hits == {i \in 1..Len(w.groups) : equals(w.groups[i].filter, filter)}
  IN IF hits = {} THEN 0 ELSE CHOOSE i \in hits : \A j \in hits : i <= j

\* populate that skips the entities waiting in the dirty list.
RECURSIVE populateSkipDirty(_, _, _)
populateSkipDirty(w, group, items) ==
  IF items = <<>> THEN group
  ELSE populateSkipDirty(w,
         IF /\ Head(items) \notin Range(w.changed)
            /\ groupTest(group, composition(w, Head(items)))
         THEN groupAdd(group, Head(items)) ELSE group,
         Tail(items))

RECURSIVE populate(_, _, _)
populate(w, group, items) ==
  IF items = <<>> THEN group
  ELSE populate(w,
                IF groupTest(group, composition(w, Head(items)))
                THEN groupAdd(group, Head(items)) ELSE group,
                Tail(items))

\* query whose cold scan runs over every entity handle ever allocated.
queryScansAllHandles(w, contains, excludes) ==
  LET cf == createFilter(w, contains, excludes)
      w1 == cf.world
      hit == cachedGroup(w1, cf.filter)
  IN IF hit # 0 THEN [world |-> w1, index |-> hit]
     ELSE LET group == populate(w1, [filter |-> cf.filter, entities |-> <<>>],
                                [e \in 1..(w1.nextEntity - 1) |-> e])
          IN [world |-> [w1 EXCEPT !.groups = Append(@, group)],
              index |-> Len(w1.groups) + 1]

\* World.query: the world after the call and the index of the returned group.
query(w, contains, excludes) ==
  LET cf == createFilter(w, contains, excludes)
      w1 == cf.world
      hit == cachedGroup(w1, cf.filter)
  IN IF hit # 0 THEN [world |-> w1, index |-> hit]
     ELSE LET group == populate(w1, [filter |-> cf.filter, entities |-> <<>>],
                                w1.entities)
          IN [world |-> [w1 EXCEPT !.groups = Append(@, group)],
              index |-> Len(w1.groups) + 1]

getGroups(w) == w.groups

\* ------------------------------------------------------------------ actions
NoQuery == << {}, {} >>

\* What the caller observes of the operation just run: which kind it was, the
\* view a query returned and the descriptor it was asked with.
Returned(op, index, descriptor) ==
  /\ lastOp' = op
  /\ result' = index
  /\ lastQuery' = descriptor
  /\ asked' = IF op = "queryNew" THEN Append(asked, descriptor) ELSE asked
  /\ probe' = probe

NoProbe == [filter |-> Filter({}, {}), composition |-> {}, outcome |-> "none"]

InitWorld ==
  /\ nextStorageIndex = 0
  /\ storages = << >>
  /\ entities = <<>>
  /\ nextEntity = 1
  /\ compositions = [e \in Entities |-> {}]
  /\ changed = <<>>
  /\ destroyed = <<>>
  /\ groups = <<>>
  /\ lastOp = "other"
  /\ result = 0
  /\ lastQuery = NoQuery
  /\ asked = <<>>

Init ==
  /\ InitWorld
  /\ probe = NoProbe

Register(component) ==
  /\ Becomes(register(W, component))
  /\ Returned("other", 0, NoQuery)

Create(components) ==
  /\ Becomes(create(W, components))
  /\ Returned("other", 0, NoQuery)

SetComponent(entity, component) ==
  /\ Becomes(storageSet(storage(W, component), component, entity))
  /\ Returned("other", 0, NoQuery)

RemoveComponent(entity, component) ==
  /\ Becomes(storageRemove(storage(W, component), component, entity))
  /\ Returned("other", 0, NoQuery)

Destroy(entity) ==
  /\ Becomes(destroy(W, entity))
  /\ Returned("other", 0, NoQuery)

Update ==
  /\ Becomes(update(W))
  /\ Returned("update", 0, NoQuery)

Query(contains, excludes) ==
  LET q == query(W, contains, excludes)
  IN /\ Becomes(q.world)
     /\ Returned(IF Len(q.world.groups) > Len(groups) THEN "queryNew" ELSE "queryHit",
                 q.index, << Range(contains), Range(excludes) >>)

\* Whether query(contains, excludes) keeps the view cache within maxGroups.
Fits(contains, excludes, maxGroups) ==
  Len(query(W, contains, excludes).world.groups) <= maxGroups

\* Two entities, one cached view.
Next ==
  \/ \E c \in Types \ DOMAIN storages : Register(c)
  \/ \E cs \in TypeLists : nextEntity <= MaxEntities /\ Create(cs)
  \/ \E e \in 1..MaxEntities, c \in Types : SetComponent(e, c)
  \/ \E e \in 1..MaxEntities, c \in Types : RemoveComponent(e, c)
  \/ \E e \in 1..MaxEntities : Destroy(e)
  \/ Update
  \/ \E cs \in TypeLists, xs \in TypeLists :
        Fits(cs, xs, MaxGroups) /\ Query(cs, xs)

Spec == Init /\ [][Next]_vars

\* One entity, two cached views.
NextViews ==
  \/ \E c \in Types \ DOMAIN storages : Register(c)
  \/ \E cs \in TypeLists : nextEntity <= MaxViewEntities /\ Create(cs)
  \/ \E e \in 1..MaxViewEntities, c \in Types : SetComponent(e, c)
  \/ \E e \in 1..MaxViewEntities, c \in Types : RemoveComponent(e, c)
  \/ \E e \in 1..MaxViewEntities : Destroy(e)
  \/ Update
  \/ \E cs \in TypeLists, xs \in TypeLists :
        Fits(cs, xs, MaxViews) /\ Query(cs, xs)

SpecViews == Init /\ [][NextViews]_vars

\* The registry alone: distinct component types registered one after the
\* other (types are opaque, so the k-th new type is numbered k), and register
\* called again on a type that is already registered.
NextRegistry ==
  \/ \E c \in RegTypes :
        /\ c = Cardinality(DOMAIN storages) + 1
        /\ Register(c)
  \/ \E c \in DOMAIN storages :
        /\ nextStorageIndex - Cardinality(DOMAIN storages) < MaxReRegistrations
        /\ Register(c)

SpecRegistry == Init /\ [][NextRegistry]_vars

\* The registry and the view cache: distinct component types registered one
\* after the other, and queries that ask for one registered type.
NextRegistryViews ==
  \/ \E c \in RegTypes :
        /\ c = Cardinality(DOMAIN storages) + 1
        /\ Register(c)
  \/ \E c \in DOMAIN storages :
        /\ Fits(<<c>>, <<>>, MaxViews)
        /\ Query(<<c>>, <<>>)

SpecRegistryViews == Init /\ [][NextRegistryViews]_vars

\* The filter alone: every filter and every composition over the identifiers
\* of the first MaxProbeBits storages, and one call of Filter.check on them.
ProbeBits == {ShiftLeftOne(i) : i \in 0..(MaxProbeBits - 1)}

InitFilter ==
  /\ InitWorld
  /\ probe \in [filter : {Filter(i, x) : i \in SUBSET ProbeBits, x \in SUBSET ProbeBits},
                composition : SUBSET ProbeBits,
                outcome : {"none"}]

Check ==
  /\ probe.outcome = "none"
  /\ probe' = [probe EXCEPT !.outcome =
                  IF check(probe.filter, probe.composition) THEN "match" ELSE "reject"]
  /\ UNCHANGED << nextStorageIndex, storages, entities, nextEntity, compositions,
                  changed, destroyed, groups, lastOp, result, lastQuery, asked >>

NextFilter == Check

SpecFilter == InitFilter /\ [][NextFilter]_vars

\* ------------------------------------------------------------------ properties
Members(group) == Range(group.entities)

\* The entities a view with this filter should hold.
Matching(filter) ==
  {e \in Entities : e \in Range(entities) /\ check(filter, compositions[e])}

\* An entity that was created and is no longer alive: it was purged.
Purged(e) == e < nextEntity /\ e \notin Range(entities)

\* What C11 expects of Filter.check.
C11_Expected(filter, compositionId) ==
  /\ filter.inclusions \subseteq compositionId
  /\ \A b \in filter.exclusions : b \notin compositionId

\* C1: right after an update(), every cached view holds exactly the alive
\* entities whose current composition matches its filter.
C1_ViewsExactAfterUpdate ==
  lastOp = "update" =>
    \A i \in 1..Len(groups) : Members(groups[i]) = Matching(groups[i].filter)

\* C2: an update() takes every entity of the destroyed list out of every
\* cached view and of every storage and makes it not alive, and an entity that
\* is no longer alive never becomes alive again.
C2_DestroyedGoneAfterUpdate ==
  [][ /\ lastOp' = "update" =>
           \A e \in Range(destroyed) :
             /\ e \notin Range(entities')
             /\ \A i \in 1..Len(groups') : e \notin Range(groups'[i].entities)
             /\ \A c \in DOMAIN storages' : e \notin storages'[c].components
      /\ \A e \in Entities : Purged(e) => e \notin Range(entities')
    ]_vars

\* C3: a query returns the view that was built for a descriptor with the same
\* contains set and the same excludes set, and no two cached views were built
\* for the same descriptor: equal descriptors share one view, different
\* descriptors never do.
C3_OneViewPerDescriptor ==
  /\ Len(asked) = Len(groups)
  /\ lastOp \in {"queryNew", "queryHit"} =>
       /\ result \in 1..Len(groups)
       /\ asked[result] = lastQuery
  /\ \A i, j \in 1..Len(asked) : i # j => asked[i] # asked[j]

\* C4: a step other than update() leaves every cached view as it was.
C4_OnlyUpdateChangesViews ==
  [][ lastOp' # "update" =>
        /\ Len(groups') >= Len(groups)
        /\ \A i \in 1..Len(groups) : groups'[i] = groups[i] ]_vars

C4_Witness ==
  /\ lastOp = "queryNew"
  /\ Len(groups) = 2
  /\ \E e \in Range(destroyed) : e \in Members(groups[1]) /\ e \notin Members(groups[2])

C6_NewViewSeeded ==
  lastOp = "queryNew" =>
    /\ Members(groups[result]) = Matching(groups[result].filter)
    /\ Len(groups[result].entities) = Cardinality(Members(groups[result]))

C6_Witness ==
  /\ lastOp = "queryNew"
  /\ result = 2
  /\ \E e \in Range(changed) :
       /\ e \in Members(groups[2])
       /\ e \notin Members(groups[1])
       /\ check(groups[1].filter, compositions[e])

\* C7: in the state an update() leaves, the dirty and destroyed lists are
\* empty and a further update() changes nothing.
C7_UpdateIdempotent ==
  lastOp = "update" =>
    /\ changed = <<>>
    /\ destroyed = <<>>
    /\ update(W) = W

C7_Witness ==
  /\ lastOp = "update"
  /\ \E i \in 1..Len(groups) : Members(groups[i]) # {}
  /\ \E e \in Entities : Purged(e)
  /\ \E e \in Range(entities) : compositions[e] # {}

\* C8: while every register() call was on a new component type, the
\* identifiers are pairwise distinct and increase in registration order.
C8_IdentifiersIncrease ==
  nextStorageIndex = Cardinality(DOMAIN storages) =>
    \A c, d \in DOMAIN storages : c < d => storages[c].id < storages[d].id

\* C9: while every register() call was on a new component type: once as
\* many types are registered as a composition has bits, no further type gets
\* registered, and no step gives a type an identifier that another type holds.
C9_CapacityChecked ==
  [][ nextStorageIndex = Cardinality(DOMAIN storages) =>
        /\ Cardinality(DOMAIN storages) >= ShiftWidth =>
             DOMAIN storages' = DOMAIN storages
        /\ \A c \in DOMAIN storages' \ DOMAIN storages :
             \A d \in DOMAIN storages : storages'[c].id # storages[d].id
    ]_vars

\* C10: no step changes the identifier of a registered component type, and
\* a step that consumes a storage index registers a type that was not
\* registered before.
C10_NoReassignment ==
  [][ /\ \A c \in DOMAIN storages :
           /\ c \in DOMAIN storages'
           /\ storages'[c].id = storages[c].id
      /\ nextStorageIndex' # nextStorageIndex =>
           DOMAIN storages' # DOMAIN storages
    ]_vars

\* C11: Filter.check accepts a composition exactly when every bit of the
\* inclusion mask is in it and no bit of the exclusion mask is; the empty
\* filter accepts every composition and a filter whose masks share a bit
\* accepts none.
C11_CheckIsInclusionExclusion ==
  probe.outcome # "none" =>
    /\ (probe.outcome = "match") <=> C11_Expected(probe.filter, probe.composition)
    /\ probe.filter = Filter({}, {}) => probe.outcome = "match"
    /\ probe.filter.inclusions \cap probe.filter.exclusions # {} =>
         probe.outcome = "reject"

C11_Witness ==
  /\ probe.outcome = "match"
  /\ probe.filter.inclusions # {}
  /\ probe.filter.exclusions # {}
  /\ probe.composition # probe.filter.inclusions

\* C12: destroy on an entity that is not alive (never created, or purged)
\* leaves the alive, destroyed and dirty lists, the compositions, the storages
\* and the views as they are.
C12_DestroyDeadIsNoOp ==
  \A e \in Entities : ~alive(W, e) => destroy(W, e) = W

C12_Witness ==
  /\ \E e \in Entities : Purged(e)
  /\ \E e \in Entities : e >= nextEntity
  /\ \E e \in Range(entities) : e \notin Range(destroyed)
  /\ groups # <<>>

\* C13: storage on a registered type changes nothing; on an unseen type it
\* consumes exactly one index, adds that type, leaves every other storage
\* alone, and a second call then changes nothing. As many indices are
\* consumed as types are registered, and after a query every type its
\* descriptor names is registered.
C13_GetOrRegister ==
  /\ \A c \in DOMAIN storages : storage(W, c) = W
  /\ \A c \in Types \ DOMAIN storages :
       /\ storage(W, c).nextStorageIndex = nextStorageIndex + 1
       /\ DOMAIN storage(W, c).storages = DOMAIN storages \cup {c}
       /\ \A d \in DOMAIN storages : storage(W, c).storages[d] = storages[d]
       /\ storage(storage(W, c), c) = storage(W, c)
  /\ nextStorageIndex = Cardinality(DOMAIN storages)
  /\ lastOp \in {"queryNew", "queryHit"} =>
       (lastQuery[1] \cup lastQuery[2]) \subseteq DOMAIN storages

C13_Witness ==
  /\ lastOp = "queryHit"
  /\ lastQuery[1] \cup lastQuery[2] = Types
  /\ nextStorageIndex = NumTypes
  /\ \A c \in Types : storages[c].components = {}

\* C14: create returns an alive entity; without components its composition
\* is empty and it is not dirty, with components its composition is exactly
\* the identifiers of the components' types and it is dirty.
C14_CreateComposes ==
  nextEntity \in Entities =>
    \A cs \in TypeLists :
      LET w1 == create(W, cs)
      IN /\ alive(w1, nextEntity)
         /\ w1.nextEntity = nextEntity + 1
         /\ w1.compositions[nextEntity] = {w1.storages[c].id : c \in Range(cs)}
         /\ (nextEntity \in Range(w1.changed)) <=> (cs # <<>>)

C14_Witness ==
  /\ \E e \in Range(entities) :
       /\ Cardinality(compositions[e]) = 2
       /\ e \in Range(changed)
  /\ \E e \in Range(entities) :
       /\ compositions[e] = {}
       /\ e \notin Range(changed)

\* C15: in every state, every cached view holds an alive entity that is not
\* in the dirty list exactly when the view's filter matches the entity's
\* current composition.
C15_ExactOutsideDirty ==
  \A i \in 1..Len(groups) :
    \A e \in Range(entities) \ Range(changed) :
      e \in Members(groups[i]) <=> check(groups[i].filter, compositions[e])

\* C16: the dirty list holds no entity twice; setDirty appends an entity that
\* is alive and not yet in the list, and changes nothing otherwise.
C16_DirtyOnce ==
  /\ Len(changed) = Cardinality(Range(changed))
  /\ \A e \in Entities :
       setDirty(W, e) =
         IF alive(W, e) /\ e \notin Range(changed)
         THEN [W EXCEPT !.changed = Append(changed, e)]
         ELSE W

C16_Witness ==
  /\ Len(changed) = 1
  /\ \E e \in Entities : Purged(e)
  /\ \E e \in Range(changed) : Cardinality(compositions[e]) = 2

\* C17: a purged entity stays purged, and no step makes it a member of a
\* view, cached or newly built.
C17_PurgedIsFinal ==
  [][ \A e \in Entities :
        Purged(e) =>
          /\ e \notin Range(entities')
          /\ e < nextEntity'
          /\ \A i \in 1..Len(groups') :
               e \in Range(groups'[i].entities) =>
                 (i <= Len(groups) /\ e \in Range(groups[i].entities))
    ]_vars

C17_Witness ==
  /\ lastOp = "queryNew"
  /\ \E e \in Entities :
       /\ Purged(e)
       /\ check(groups[result].filter, compositions[e])
       /\ e \notin Members(groups[result])
  /\ Members(groups[result]) # {}

\* C18: no cached view holds an entity more than once.
C18_NoDuplicateMembers ==
  \A i \in 1..Len(groups) :
    Len(groups[i].entities) = Cardinality(Members(groups[i]))

C18_Witness ==
  /\ lastOp = "update"
  /\ \E i \in 1..Len(groups) : Len(groups[i].entities) = 2
  /\ \E e \in Range(entities) : Cardinality(compositions[e]) = 2

\* C19: the view cache only grows and no view's filter changes; after an
\* update() every view holds each entity of the dirty list exactly when its
\* filter matches the entity's composition.
C19_CacheGrowsAndSyncs ==
  [][ /\ Len(groups') >= Len(groups)
      /\ \A i \in 1..Len(groups) : groups'[i].filter = groups[i].filter
      /\ lastOp' = "update" =>
           \A i \in 1..Len(groups) : \A e \in Range(changed) :
             e \in Range(groups'[i].entities)
               <=> check(groups'[i].filter, compositions'[e])
    ]_vars

C19_Witness ==
  /\ lastOp = "update"
  /\ Len(groups) = 2
  /\ Members(groups[1]) = {}
  /\ Members(groups[2]) # {}
  /\ \E e \in Range(entities) : compositions[e] # {}

====
